---- MODULE Spec2Model ----
(***************************************************************************)
(* The stalog evaluator (runtime/runtime.go): a Runtime owns a symbol      *)
(* table, a value stack and a log, and Eval executes one instruction,      *)
(* Push or Permute, against the stack.                                     *)
(*                                                                         *)
(* Go slices are modelled with their backing array: a slice is a record    *)
(* [array, len] whose capacity is Len(array); the visible contents are the *)
(* first len elements.  Indexing is checked against len, reslicing against *)
(* the capacity, and append writes in place while the capacity suffices.   *)
(*                                                                         *)
(* Errors: runtime.go has one sentinel error value, Err ("misc error"),    *)
(* returned by push for an invalid symbol index and by permute for an      *)
(* invalid window index, and one formatted error (fmt.Errorf) returned by  *)
(* permute when the stack is too small.  A Go panic ends the evaluation;   *)
(* nothing in the repository recovers from it.                             *)
(***************************************************************************)
EXTENDS Integers, Sequences, FiniteSets, TLC

\* ---- bounds of the model ----
NumSymbols == 2     \* length of the symbol table given at construction
MaxStack == 3       \* instructions that would grow the stack past this are not issued
MaxPop == 2         \* largest Pop field, and largest window index, issued
MaxPushLen == 2     \* longest Permute.Push list issued
MaxRot == 3         \* largest rotated window, and longest run of calls followed
MaxStackTwo == 2    \* stack bound of each of two Runtimes run side by side

\* Symbols, Stack, Log: the Runtime.  pc, lastOp, prev, result: the caller's
\* place and its record of the last call.  start, run: the Runtime a run of
\* calls began with and the calls of the run.  good: the stack of a second
\* Runtime that is given only the instructions that succeeded.  Stack2, Log2:
\* a second Runtime over the same symbol table.  alone: the Runtimes the two
\* become when each is given its own instructions and nothing else happens.
VARIABLES Symbols, Stack, Log, pc, lastOp, prev, result,
          start, run, good, Stack2, Log2, alone

vars == <<Symbols, Stack, Log, pc, lastOp, prev, result,
          start, run, good, Stack2, Log2, alone>>

\* what only the specifications of runs and of two Runtimes change
seqVars == <<start, run, good>>
twoVars == <<Stack2, Log2, alone>>

\* ---- values ----
Symbol(i) == [tag |-> "Symbol", idx |-> i]

\* the zero value of the interface type Value: what an array slot holds
\* before anything is stored in it
NilValue == [tag |-> "nil"]

\* ---- slices ----
NilSlice == [array |-> <<>>, len |-> 0]

cap(s) == Len(s.array)

\* the elements of a slice, as reflect.DeepEqual and range see them
View(s) == SubSeq(s.array, 1, s.len)

\* The capacity of the array a reallocating append returns is not fixed by
\* the language ("a new, sufficiently large underlying array"): it is either
\* an exact fit or, as the gc runtime grows small slices, double the old one.
GrowthRules == {"exact", "double"}

newCap(oldCap, newLen, growth) ==
    IF growth = "double" /\ 2 * oldCap > newLen THEN 2 * oldCap ELSE newLen

\* append(s, vals...): in place when the capacity suffices, otherwise into
\* a new array that holds the old elements, vals, and zeroed spare slots
append(s, vals, growth) ==
    LET newLen == s.len + Len(vals) IN
    IF newLen <= cap(s)
    THEN [array |-> [i \in 1..cap(s) |->
                        IF s.len < i /\ i <= newLen THEN vals[i - s.len]
                                                    ELSE s.array[i]],
          len |-> newLen]
    ELSE [array |-> [i \in 1..newCap(cap(s), newLen, growth) |->
                        IF i <= s.len THEN s.array[i]
                        ELSE IF i <= newLen THEN vals[i - s.len]
                        ELSE NilValue],
          len |-> newLen]

\* s[:hi] is legal when 0 <= hi <= cap(s)
resliceOK(s, hi) == 0 <= hi /\ hi <= cap(s)

\* mutant: the result of the slice expression is dropped, the slice keeps its length
reslice_noShrink(s, hi) == s

reslice(s, hi) == [array |-> s.array, len |-> hi]

\* ---- results of Eval ----
NoResult == [kind |-> "none"]
Nil == [kind |-> "nil"]
Err == [kind |-> "Err"]
Errorf(pop, size) == [kind |-> "Errorf", pop |-> pop, size |-> size]
Panic(msg) == [kind |-> "panic", msg |-> msg]

\* ---- operations ----
PushOp(i) == [op |-> "Push", SymbolIdx |-> i]
PermuteOp(pop, pushList) == [op |-> "Permute", Pop |-> pop, Push |-> pushList]
NilOp == [op |-> "nil"]

\* the int32 fields of an operation, sampled on both sides of every
\* comparison; the code widens them to int before any arithmetic, so no
\* operation on them overflows
Int32s == (-1)..MaxPop
SymbolIdxs == (-1)..NumSymbols

RECURSIVE SeqsUpTo(_, _)
SeqsUpTo(S, n) ==
    IF n = 0 THEN {<<>>}
    ELSE LET shorter == SeqsUpTo(S, n - 1) IN
         shorter \cup {Append(q, x) : q \in {t \in shorter : Len(t) = n - 1}, x \in S}

PushLists == SeqsUpTo(Int32s, MaxPushLen)

\* ---- the Runtime ----
rt == [Symbols |-> Symbols, Stack |-> Stack, Log |-> Log]

\* mutant: the index counts from the bottom of the stack, r.Stack[idx]
getIndex_fromBottom(r, idx) == idx

getIndex(r, idx) == r.Stack.len - 1 - idx

getPanics(r, idx) == getIndex(r, idx) < 0 \/ getIndex(r, idx) >= r.Stack.len

\* mutant: the index is ignored and the top of the stack returned
get_top(r, idx) == r.Stack.array[r.Stack.len]

get(r, idx) == r.Stack.array[getIndex(r, idx) + 1]

\* mutant: push also records the value in the log
push_logs(r, p, growth) ==
    IF Len(r.Symbols) <= p.SymbolIdx
    THEN [rt |-> r, err |-> Err]
    ELSE [rt |-> [r EXCEPT !.Stack = append(r.Stack, <<Symbol(p.SymbolIdx)>>, growth),
                           !.Log = append(r.Log, <<Symbol(p.SymbolIdx)>>, growth)],
          err |-> Nil]

push(r, p, growth) ==
    IF Len(r.Symbols) <= p.SymbolIdx
    THEN [rt |-> r, err |-> Err]
    ELSE [rt |-> [r EXCEPT !.Stack = append(r.Stack, <<Symbol(p.SymbolIdx)>>, growth)],
          err |-> Nil]

\* mutant: the window test is p.Pop < idx, so idx = p.Pop passes it
RECURSIVE permuteLoop_offByOne(_, _, _, _)
permuteLoop_offByOne(r, p, k, pushes) ==
    IF k > Len(p.Push) THEN [err |-> Nil, pushes |-> pushes]
    ELSE LET idx == p.Push[k] IN
         IF p.Pop < idx THEN [err |-> Err, pushes |-> pushes]
         ELSE IF getPanics(r, idx)
              THEN [err |-> Panic("index out of range"), pushes |-> pushes]
              ELSE permuteLoop_offByOne(r, p, k + 1, Append(pushes, get(r, idx)))

\* the loop of permute over p.Push from entry k on, pushes collected so far
RECURSIVE permuteLoop(_, _, _, _)
permuteLoop(r, p, k, pushes) ==
    IF k > Len(p.Push) THEN [err |-> Nil, pushes |-> pushes]
    ELSE LET idx == p.Push[k] IN
         IF p.Pop <= idx THEN [err |-> Err, pushes |-> pushes]
         ELSE IF getPanics(r, idx)
              THEN [err |-> Panic("index out of range"), pushes |-> pushes]
              ELSE permuteLoop(r, p, k + 1, Append(pushes, get(r, idx)))

\* mutant: the window is popped before the push list is validated
permute_popFirst(r, p, growth) ==
    IF r.Stack.len < p.Pop
    THEN [rt |-> r, err |-> Errorf(p.Pop, r.Stack.len)]
    ELSE LET hi == r.Stack.len - p.Pop IN
         IF ~resliceOK(r.Stack, hi)
         THEN [rt |-> r, err |-> Panic("slice bounds out of range")]
         ELSE LET loop == permuteLoop(r, p, 1, <<>>)
                  popped == [r EXCEPT !.Stack = reslice(r.Stack, hi)]
              IN IF loop.err # Nil THEN [rt |-> popped, err |-> loop.err]
                 ELSE [rt |-> [r EXCEPT !.Stack =
                                  append(reslice(r.Stack, hi), loop.pushes, growth)],
                       err |-> Nil]

\* mutant: the push list is validated before the stack size is checked
permute_windowFirst(r, p, growth) ==
    LET loop == permuteLoop(r, p, 1, <<>>)
        hi == r.Stack.len - p.Pop
    IN IF loop.err # Nil THEN [rt |-> r, err |-> loop.err]
       ELSE IF r.Stack.len < p.Pop
            THEN [rt |-> r, err |-> Errorf(p.Pop, r.Stack.len)]
            ELSE IF ~resliceOK(r.Stack, hi)
                 THEN [rt |-> r, err |-> Panic("slice bounds out of range")]
                 ELSE [rt |-> [r EXCEPT !.Stack =
                                  append(reslice(r.Stack, hi), loop.pushes, growth)],
                       err |-> Nil]

\* mutant: as many elements are popped as are pushed, r.Stack[:len-len(p.Push)]
permute_popsPushLen(r, p, growth) ==
    IF r.Stack.len < p.Pop
    THEN [rt |-> r, err |-> Errorf(p.Pop, r.Stack.len)]
    ELSE LET loop == permuteLoop(r, p, 1, <<>>)
             hi == r.Stack.len - Len(p.Push)
         IN IF loop.err # Nil THEN [rt |-> r, err |-> loop.err]
            ELSE IF ~resliceOK(r.Stack, hi)
                 THEN [rt |-> r, err |-> Panic("slice bounds out of range")]
                 ELSE [rt |-> [r EXCEPT !.Stack =
                                  append(reslice(r.Stack, hi), loop.pushes, growth)],
                       err |-> Nil]

\* mutant: one element more than the window is popped, r.Stack[:len-pop-1]
permute_popsOneMore(r, p, growth) ==
    IF r.Stack.len < p.Pop
    THEN [rt |-> r, err |-> Errorf(p.Pop, r.Stack.len)]
    ELSE LET loop == permuteLoop(r, p, 1, <<>>)
             hi == r.Stack.len - p.Pop - 1
         IN IF loop.err # Nil THEN [rt |-> r, err |-> loop.err]
            ELSE IF ~resliceOK(r.Stack, hi)
                 THEN [rt |-> r, err |-> Panic("slice bounds out of range")]
                 ELSE [rt |-> [r EXCEPT !.Stack =
                                  append(reslice(r.Stack, hi), loop.pushes, growth)],
                       err |-> Nil]

\* mutant: the size test is len(r.Stack) <= int(p.Pop)
permute_sizeOffByOne(r, p, growth) ==
    IF r.Stack.len <= p.Pop
    THEN [rt |-> r, err |-> Errorf(p.Pop, r.Stack.len)]
    ELSE LET loop == permuteLoop(r, p, 1, <<>>)
             hi == r.Stack.len - p.Pop
         IN IF loop.err # Nil THEN [rt |-> r, err |-> loop.err]
            ELSE IF ~resliceOK(r.Stack, hi)
                 THEN [rt |-> r, err |-> Panic("slice bounds out of range")]
                 ELSE [rt |-> [r EXCEPT !.Stack =
                                  append(reslice(r.Stack, hi), loop.pushes, growth)],
                       err |-> Nil]

permute(r, p, growth) ==
    IF r.Stack.len < p.Pop
    THEN [rt |-> r, err |-> Errorf(p.Pop, r.Stack.len)]
    ELSE LET loop == permuteLoop(r, p, 1, <<>>)
             hi == r.Stack.len - p.Pop
         IN IF loop.err # Nil THEN [rt |-> r, err |-> loop.err]
            ELSE IF ~resliceOK(r.Stack, hi)
                 THEN [rt |-> r, err |-> Panic("slice bounds out of range")]
                 ELSE [rt |-> [r EXCEPT !.Stack =
                                  append(reslice(r.Stack, hi), loop.pushes, growth)],
                       err |-> Nil]

\* mutant: an unmatched variant returns Err instead of panicking
Eval_defaultErr(r, o, growth) ==
    CASE o.op = "Push" -> push(r, o, growth)
      [] o.op = "Permute" -> permute(r, o, growth)
      [] OTHER -> [rt |-> r, err |-> Err]

Eval(r, o, growth) ==
    CASE o.op = "Push" -> push(r, o, growth)
      [] o.op = "Permute" -> permute(r, o, growth)
      [] OTHER -> [rt |-> r, err |-> Panic("bad opcode")]

\* ---- the state machine ----
\* the table of the tests, cut to NumSymbols names (NumSymbols <= 5)
SymbolNames == <<"A", "B", "C", "D", "E">>

InitSymbols == SubSeq(SymbolNames, 1, NumSymbols)

Init ==
    /\ Symbols = InitSymbols
    /\ Stack = NilSlice
    /\ Log = NilSlice
    /\ pc = "idle"
    /\ lastOp = NilOp
    /\ prev = [Symbols |-> InitSymbols, Stack |-> NilSlice, Log |-> NilSlice]
    /\ result = NoResult
    /\ start = [Symbols |-> InitSymbols, Stack |-> NilSlice, Log |-> NilSlice]
    /\ run = <<>>
    /\ good = NilSlice
    /\ Stack2 = NilSlice
    /\ Log2 = NilSlice
    /\ alone = <<[Symbols |-> InitSymbols, Stack |-> NilSlice, Log |-> NilSlice],
                 [Symbols |-> InitSymbols, Stack |-> NilSlice, Log |-> NilSlice]>>

\* the Runtimes one call rt.Eval(o) can leave, with what it returns
Outcomes(o) ==
    {out \in {Eval(rt, o, g) : g \in GrowthRules} : out.rt.Stack.len <= MaxStack}

\* rt.Eval(Push(i)); lastOp, prev and result record the call, the Runtime
\* before it and what it returned
EvalPush ==
    /\ pc = "idle"
    /\ \E i \in SymbolIdxs : \E out \in Outcomes(PushOp(i)) :
        /\ Symbols' = out.rt.Symbols
        /\ Stack' = out.rt.Stack
        /\ Log' = out.rt.Log
        /\ result' = out.err
        /\ lastOp' = PushOp(i)
    /\ prev' = rt
    /\ pc' = "returned"
    /\ UNCHANGED <<seqVars, twoVars>>

\* rt.Eval(Permute(pop, push...))
EvalPermute ==
    /\ pc = "idle"
    /\ \E pop \in Int32s, pushList \in PushLists :
       \E out \in Outcomes(PermuteOp(pop, pushList)) :
        /\ Symbols' = out.rt.Symbols
        /\ Stack' = out.rt.Stack
        /\ Log' = out.rt.Log
        /\ result' = out.err
        /\ lastOp' = PermuteOp(pop, pushList)
    /\ prev' = rt
    /\ pc' = "returned"
    /\ UNCHANGED <<seqVars, twoVars>>

\* rt.Eval of an operation with no variant set
EvalNil ==
    /\ pc = "idle"
    /\ \E out \in Outcomes(NilOp) :
        /\ Symbols' = out.rt.Symbols
        /\ Stack' = out.rt.Stack
        /\ Log' = out.rt.Log
        /\ result' = out.err
    /\ lastOp' = NilOp
    /\ prev' = rt
    /\ pc' = "returned"
    /\ UNCHANGED <<seqVars, twoVars>>

\* the caller has looked at the error and the stack and goes on to its next
\* operation; a panic has unwound the caller, which makes no further call
NextStep ==
    /\ pc = "returned"
    /\ result.kind # "panic"
    /\ pc' = "idle"
    /\ lastOp' = NilOp
    /\ prev' = rt
    /\ result' = NoResult
    /\ UNCHANGED <<Symbols, Stack, Log, seqVars, twoVars>>

Next == EvalPush \/ EvalPermute \/ EvalNil \/ NextStep

Spec == Init /\ [][Next]_vars

\* ---- runs of calls ----
\* the operations the tests name
Pop == PermuteOp(1, <<>>)
Swap == PermuteOp(2, <<0, 1>>)
Dup == PermuteOp(1, <<0, 0>>)

\* the push list that keeps a window of k as it is, <<k-1, ..., 1, 0>>
Identity(k) == [j \in 1..k |-> k - j]

\* the identity list rotated by s places: the tests' roll right of three,
\* <<0, 2, 1>>, is Rotation(3, 2) and their roll left, <<1, 0, 2>>, Rotation(3, 1)
Rotation(k, s) == [j \in 1..k |-> Identity(k)[((j - 1 + s) % k) + 1]]

Rotations(k) == IF k = 0 THEN {<<>>} ELSE {Rotation(k, s) : s \in 0..(k - 1)}

\* every Push and Permute the bounds allow
AllOps ==
    {PushOp(i) : i \in SymbolIdxs}
        \cup {PermuteOp(pop, pushList) : pop \in Int32s, pushList \in PushLists}

\* the operations a run begins with: pushes, the tests' Pop, Swap and Dup,
\* and the rotations (the identity among them) of windows up to MaxRot
RunOps ==
    {PushOp(i) : i \in SymbolIdxs} \cup {Pop, Swap, Dup}
        \cup UNION {{PermuteOp(k, r) : r \in Rotations(k)} : k \in 0..MaxRot}

NoRun == [Symbols |-> InitSymbols, Stack |-> NilSlice, Log |-> NilSlice]

\* the second Runtime, which is given only the instructions that succeeded
goodRt == [Symbols |-> Symbols, Stack |-> good, Log |-> Log]

\* what one call rt.Eval(o) can leave: the Runtime and the error, and what
\* the same call leaves of the second Runtime
SeqOutcomes(o) ==
    {x \in {[out |-> Eval(rt, o, g), good |-> Eval(goodRt, o, g)] : g \in GrowthRules} :
        x.out.rt.Stack.len <= MaxStack}

\* one pass of the caller's loop: rt.Eval(o) for any operation, after which
\* the caller goes on, unless the call panicked
Step ==
    /\ pc = "idle"
    /\ \E o \in AllOps : \E x \in SeqOutcomes(o) :
        /\ Symbols' = x.out.rt.Symbols
        /\ Stack' = x.out.rt.Stack
        /\ Log' = x.out.rt.Log
        /\ good' = IF x.out.err = Nil THEN x.good.rt.Stack ELSE good
        /\ IF x.out.err.kind = "panic"
           THEN pc' = "returned" /\ lastOp' = o /\ prev' = rt /\ result' = x.out.err
           ELSE pc' = "idle" /\ lastOp' = NilOp /\ prev' = x.out.rt /\ result' = NoResult
    /\ UNCHANGED <<start, run, twoVars>>

\* the first call of a run
Begin ==
    /\ pc = "idle"
    /\ \E o \in RunOps : \E x \in SeqOutcomes(o) :
        /\ Symbols' = x.out.rt.Symbols
        /\ Stack' = x.out.rt.Stack
        /\ Log' = x.out.rt.Log
        /\ good' = IF x.out.err = Nil THEN x.good.rt.Stack ELSE good
        /\ lastOp' = o
        /\ result' = x.out.err
        /\ run' = <<[op |-> o, err |-> x.out.err]>>
    /\ pc' = "returned"
    /\ prev' = rt
    /\ start' = rt
    /\ UNCHANGED twoVars

\* the call of the run is made once more
Again ==
    /\ pc = "returned"
    /\ run # <<>> /\ Len(run) < MaxRot
    /\ result.kind # "panic"
    /\ run[Len(run)].op = run[1].op
    /\ \E x \in SeqOutcomes(run[1].op) :
        /\ Symbols' = x.out.rt.Symbols
        /\ Stack' = x.out.rt.Stack
        /\ Log' = x.out.rt.Log
        /\ good' = IF x.out.err = Nil THEN x.good.rt.Stack ELSE good
        /\ result' = x.out.err
        /\ run' = Append(run, [op |-> run[1].op, err |-> x.out.err])
    /\ lastOp' = run[1].op
    /\ prev' = rt
    /\ UNCHANGED <<pc, start, twoVars>>

\* the first call of the run is followed by Pop
ThenPop ==
    /\ pc = "returned"
    /\ Len(run) = 1
    /\ result.kind # "panic"
    /\ \E x \in SeqOutcomes(Pop) :
        /\ Symbols' = x.out.rt.Symbols
        /\ Stack' = x.out.rt.Stack
        /\ Log' = x.out.rt.Log
        /\ good' = IF x.out.err = Nil THEN x.good.rt.Stack ELSE good
        /\ result' = x.out.err
        /\ run' = Append(run, [op |-> Pop, err |-> x.out.err])
    /\ lastOp' = Pop
    /\ prev' = rt
    /\ UNCHANGED <<pc, start, twoVars>>

\* the run is over and the caller goes on with other operations
EndRun ==
    /\ pc = "returned"
    /\ run # <<>>
    /\ result.kind # "panic"
    /\ pc' = "idle"
    /\ lastOp' = NilOp
    /\ prev' = rt
    /\ result' = NoResult
    /\ start' = NoRun
    /\ run' = <<>>
    /\ UNCHANGED <<Symbols, Stack, Log, good, twoVars>>

NextSeq == Step \/ Begin \/ Again \/ ThenPop \/ EndRun

SpecSeq == Init /\ [][NextSeq]_vars

\* ---- what a returned call looks like ----
returned == pc = "returned"

\* the stack before and after the last call, bottom first
old == View(prev.Stack)
new == View(Stack)
n == prev.Stack.len

isPush == returned /\ lastOp.op = "Push"
isPermute == returned /\ lastOp.op = "Permute"

\* Eval returned an error value
failed == returned /\ result.kind \in {"Err", "Errorf"}

\* Precondition 2 of Permute as the specification states it
inWindow(e, pop) == 0 <= e /\ e < pop

\* the elements the push list selects from the old stack, S[n-1-e] for each e
selected(S, pushList) == [k \in 1..Len(pushList) |-> S[Len(S) - pushList[k]]]

Min(a, b) == IF a < b THEN a ELSE b

\* C1: whenever Eval reports a failure (an error, and likewise when it
\* panics) the stack and the log, backing arrays included, are exactly what
\* they were before the call: every check of permute precedes its mutation.
C1_Atomicity ==
    (returned /\ result.kind \in {"Err", "Errorf", "panic"})
        => (Stack = prev.Stack /\ Log = prev.Log)

\* a Permute on a non-empty stack passed the size check, had a first entry
\* inside its window and failed on a later one
C1_Witness ==
    /\ isPermute /\ result = Err
    /\ n >= 1 /\ lastOp.Pop >= 1 /\ lastOp.Pop <= n
    /\ Len(lastOp.Push) >= 2 /\ inWindow(lastOp.Push[1], lastOp.Pop)

\* C2: a Permute(pop, push) with 0 <= pop <= n and every entry in 0..pop-1
\* succeeds and leaves the first n-pop elements followed by S[n-1-e] for
\* each entry e in order.
C2_PermuteResult ==
    (/\ isPermute
     /\ 0 <= lastOp.Pop /\ lastOp.Pop <= n
     /\ \A k \in 1..Len(lastOp.Push) : inWindow(lastOp.Push[k], lastOp.Pop))
        => (/\ result = Nil
            /\ new = SubSeq(old, 1, n - lastOp.Pop) \o selected(old, lastOp.Push))

\* a swap of two different elements above an element that stays
C2_Witness ==
    /\ isPermute /\ result = Nil
    /\ lastOp.Pop = 2 /\ lastOp.Push = <<0, 1>>
    /\ n = 3 /\ old[2] # old[3] /\ old[1] # old[3]

\* C3: Push(i) succeeds iff 0 <= i < len(symbols); on success Symbol(i) is
\* appended, on failure the stack is unchanged.
C3_PushValidity ==
    isPush =>
        (/\ (result = Nil) <=> (0 <= lastOp.SymbolIdx /\ lastOp.SymbolIdx < Len(Symbols))
         /\ result = Nil => new = Append(old, Symbol(lastOp.SymbolIdx))
         /\ result # Nil => (result = Err /\ new = old))

someAtLeastPop == \E k \in 1..Len(lastOp.Push) : lastOp.Push[k] >= lastOp.Pop

\* the first entry that is not below Pop has only non-negative entries before it
noNegativeBefore ==
    \A k \in 1..Len(lastOp.Push) :
        lastOp.Push[k] >= lastOp.Pop \/ lastOp.Push[k] >= 0
        \/ \E j \in 1..(k - 1) : lastOp.Push[j] >= lastOp.Pop

\* C4 as stated: a Permute with some push[k] >= pop fails with the window
\* index error whatever the size of the stack, and leaves the stack unchanged.
C4_OutOfRangeAnyStack ==
    (isPermute /\ someAtLeastPop) => (result = Err /\ new = old)

\* C4 amended: a Permute with some push[k] >= pop never succeeds and leaves
\* the stack unchanged; the stack size is checked first, so with pop > n the
\* error is the insufficient-stack one, and with pop <= n it is the window
\* index error when no negative entry comes before the first such k.
C4_OutOfRangeRejected ==
    (isPermute /\ someAtLeastPop) =>
        (/\ result # Nil
         /\ Stack = prev.Stack
         /\ lastOp.Pop > n => result = Errorf(lastOp.Pop, n)
         /\ (lastOp.Pop <= n /\ noNegativeBefore) => result = Err)

\* the test's case: the second entry equals pop, on a stack that holds pop elements
C4_Witness ==
    /\ isPermute /\ result = Err
    /\ lastOp.Pop >= 1 /\ lastOp.Pop <= n
    /\ Len(lastOp.Push) = 2
    /\ inWindow(lastOp.Push[1], lastOp.Pop) /\ lastOp.Push[2] = lastOp.Pop

\* C5: a Permute(pop, push) with 0 <= pop <= n and some negative entry
\* returns the window index error and leaves the stack unchanged.
C5_NegativeIndexRejected ==
    (/\ isPermute
     /\ 0 <= lastOp.Pop /\ lastOp.Pop <= n
     /\ \E k \in 1..Len(lastOp.Push) : lastOp.Push[k] < 0)
        => (result = Err /\ new = old)

\* C6: a Permute(pop, push) with pop > n fails with the error that carries
\* pop and n, whatever push holds, and the stack is unchanged.
C6_InsufficientStack ==
    (isPermute /\ lastOp.Pop > n)
        => (result = Errorf(lastOp.Pop, n) /\ Stack = prev.Stack)

\* a non-empty stack, and a push list whose entry alone would be an error
C6_Witness ==
    /\ isPermute /\ result.kind = "Errorf"
    /\ n >= 1 /\ Len(lastOp.Push) >= 1 /\ lastOp.Push[1] >= lastOp.Pop

\* C7: a successful Push grows the stack by 1, a successful Permute by
\* len(push) - pop; the size is never negative and a call that does not
\* succeed leaves it alone.
C7_StackSizeLaw ==
    /\ Stack.len >= 0
    /\ (isPush /\ result = Nil) => Stack.len = n + 1
    /\ (isPermute /\ result = Nil) => Stack.len = n + Len(lastOp.Push) - lastOp.Pop
    /\ (returned /\ result # Nil) => Stack.len = n

\* a successful Permute that pops more than it pushes
C7_Witness ==
    /\ isPermute /\ result = Nil
    /\ lastOp.Pop = 2 /\ Len(lastOp.Push) = 1 /\ Stack.len = n - 1

\* C8: after a successful Permute(pop, push) the positions 0..n-pop-1 of the
\* old stack hold the same values in the same order; after a successful Push
\* all n old elements do.
C8_FrameBelowWindow ==
    /\ (isPermute /\ result = Nil) =>
          /\ Len(new) >= Min(n, n - lastOp.Pop)
          /\ \A i \in 1..Min(n, n - lastOp.Pop) : new[i] = old[i]
    /\ (isPush /\ result = Nil) =>
          /\ Len(new) >= n
          /\ SubSeq(new, 1, n) = old

\* an element stays below a window of two that is rewritten with other values
C8_Witness ==
    /\ isPermute /\ result = Nil
    /\ lastOp.Pop = 2 /\ lastOp.Push = <<0, 0>>
    /\ n = 3 /\ old[1] # old[3] /\ old[2] # old[3]

\* C9: whatever instructions ran, the log is still empty and the symbol
\* table is the one given at construction.
C9_LogAndSymbolsFixed ==
    /\ Log = NilSlice
    /\ Symbols = InitSymbols

\* a failing call after successful ones
C9_Witness == failed /\ n >= 2 /\ \E i \in 1..n : old[i] = Symbol(0)

BadOpcode == Panic("bad opcode")

\* C10: an operation that is neither Push nor Permute makes Eval panic with
\* "bad opcode" before anything is changed; a Push or a Permute never does.
C10_UnrecognizedFatal ==
    returned =>
        (/\ lastOp.op \notin {"Push", "Permute"} =>
                (result = BadOpcode /\ Stack = prev.Stack /\ Log = prev.Log)
         /\ lastOp.op \in {"Push", "Permute"} => result # BadOpcode)

\* an operation without a variant reached an evaluator that holds a stack
C10_Witness == returned /\ lastOp = NilOp /\ result = BadOpcode /\ n >= 1

\* ---- two Runtimes ----
\* the second Runtime; like the first it starts with no stack and no log
\* and reads the symbol table the two share
rt2 == [Symbols |-> Symbols, Stack |-> Stack2, Log |-> Log2]

\* the instructions given to the two: pushes of every symbol of the table
\* and of the first index past it, and the tests' Pop, Swap and Dup
TwoOps == {PushOp(i) : i \in 0..NumSymbols} \cup {Pop, Swap, Dup}

\* mutant: every call works on the same Runtime, whichever it was made on
receiver_shared(i) == rt

\* the Runtime a call is made on: Eval, push, permute and get read and write
\* the fields of their receiver r and nothing else
receiver(i) == IF i = 1 THEN rt ELSE rt2

\* what one call Eval(o) on Runtime i can leave of it, and of the Runtime
\* that is given the instructions of i alone
TwoOutcomes(i, o) ==
    {x \in {[out |-> Eval(receiver(i), o, g), alone |-> Eval(alone[i], o, g)] :
                g \in GrowthRules} :
        x.out.rt.Stack.len <= MaxStackTwo}

\* a call of Eval on the first Runtime.  Calls on different Runtimes share
\* no memory that is written, so their statements interleave like whole calls.
EvalOne ==
    /\ pc = "idle"
    /\ \E o \in TwoOps : \E x \in TwoOutcomes(1, o) :
        /\ Stack' = x.out.rt.Stack
        /\ Log' = x.out.rt.Log
        /\ alone' = [alone EXCEPT ![1] = x.alone.rt]
    /\ UNCHANGED <<Symbols, Stack2, Log2, pc, lastOp, prev, result, seqVars>>

\* a call of Eval on the second Runtime
EvalTwo ==
    /\ pc = "idle"
    /\ \E o \in TwoOps : \E x \in TwoOutcomes(2, o) :
        /\ Stack2' = x.out.rt.Stack
        /\ Log2' = x.out.rt.Log
        /\ alone' = [alone EXCEPT ![2] = x.alone.rt]
    /\ UNCHANGED <<Symbols, Stack, Log, pc, lastOp, prev, result, seqVars>>

NextTwo == EvalOne \/ EvalTwo

SpecTwo == Init /\ [][NextTwo]_vars

\* ---- what a run looks like ----
\* the stack the run began with, bottom first
first == View(start.Stack)

\* every call of the run so far is the operation o
repeated(o) == run # <<>> /\ \A k \in 1..Len(run) : run[k].op = o

allSucceeded == \A k \in 1..Len(run) : run[k].err = Nil

\* the run is a rotation of a window of k >= 1 elements, made again and
\* again on a stack that held at least k elements
rotating ==
    /\ run # <<>>
    /\ run[1].op.op = "Permute"
    /\ run[1].op.Pop >= 1
    /\ run[1].op.Push \in Rotations(run[1].op.Pop)
    /\ repeated(run[1].op)
    /\ start.Stack.len >= run[1].op.Pop

\* C11: a Permute(k, push) whose push list is a rotation of the identity
\* list, made k times in succession on a stack of at least k elements,
\* succeeds every time and returns the whole stack to what it was.
C11_RotationPeriod ==
    (rotating /\ Len(run) = run[1].op.Pop) => (allSucceeded /\ new = first)

\* the tests' roll right of three, made three times on the stack [A, A, B]
C11_Witness ==
    /\ rotating /\ Len(run) = 3
    /\ run[1].op = PermuteOp(3, <<0, 2, 1>>)
    /\ allSucceeded
    /\ first = <<Symbol(0), Symbol(0), Symbol(1)>>

\* the symbol index is one of the table
validIdx(i) == 0 <= i /\ i < Len(Symbols)

\* C12: Push(s) of a symbol s of the table followed by Permute(1, [])
\* succeeds twice and leaves the stack as it was before the Push.
C12_PopAfterPush ==
    (/\ Len(run) = 2
     /\ run[1].op.op = "Push" /\ validIdx(run[1].op.SymbolIdx)
     /\ run[2].op = Pop)
        => (allSucceeded /\ new = first)

\* B pushed on [A, A] and popped again
C12_Witness ==
    /\ Len(run) = 2 /\ run[1].op = PushOp(1) /\ run[2].op = Pop
    /\ allSucceeded
    /\ first = <<Symbol(0), Symbol(0)>>

\* C13: Permute(k, [k-1, ..., 1, 0]) on a stack of at least k elements
\* succeeds and leaves the stack as it was; so does Permute(0, []) on every
\* stack, the empty one included.
C13_IdentityPermute ==
    (/\ Len(run) = 1
     /\ run[1].op.op = "Permute"
     /\ run[1].op.Pop >= 0
     /\ run[1].op.Push = Identity(run[1].op.Pop)
     /\ start.Stack.len >= run[1].op.Pop)
        => (run[1].err = Nil /\ new = first)

\* the identity of a window of two different elements
C13_Witness ==
    /\ Len(run) = 1 /\ run[1].op = PermuteOp(2, <<1, 0>>) /\ run[1].err = Nil
    /\ Len(first) = 3 /\ first[2] # first[3]

\* the stack S with its top two elements exchanged
swapped(S) ==
    SubSeq(S, 1, Len(S) - 2) \o <<S[Len(S)], S[Len(S) - 1]>>

\* C14: on a stack of at least two elements Permute(2, [0, 1]) exchanges the
\* top two and leaves the rest, and made twice restores the stack; on a
\* stack of fewer than two elements it fails and changes nothing.
C14_SwapInvolution ==
    /\ (repeated(Swap) /\ Len(first) >= 2 /\ Len(run) = 1) =>
          (allSucceeded /\ new = swapped(first))
    /\ (repeated(Swap) /\ Len(first) >= 2 /\ Len(run) = 2) =>
          (allSucceeded /\ new = first)
    /\ (repeated(Swap) /\ Len(first) < 2 /\ Len(run) = 1) =>
          (run[1].err.kind \in {"Err", "Errorf"} /\ Stack = start.Stack)

\* Swap made twice on [A, A, B]
C14_Witness ==
    /\ repeated(Swap) /\ Len(run) = 2 /\ allSucceeded
    /\ first = <<Symbol(0), Symbol(0), Symbol(1)>>

\* C15: Permute(1, [0, 0]) followed by Permute(1, []) leaves the stack as it
\* was before the first; on a non-empty stack the first succeeds and leaves
\* the stack with a second copy of its top element on top.
C15_DupThenPop ==
    /\ (Len(run) = 2 /\ run[1].op = Dup /\ run[2].op = Pop) => new = first
    /\ (Len(run) = 1 /\ run[1].op = Dup /\ Len(first) >= 1) =>
          (run[1].err = Nil /\ new = Append(first, first[Len(first)]))

\* Dup and Pop on [A, B], both successful
C15_Witness ==
    /\ Len(run) = 2 /\ run[1].op = Dup /\ run[2].op = Pop
    /\ allSucceeded
    /\ first = <<Symbol(0), Symbol(1)>>

\* C17: a Permute with a negative pop returns an error and leaves the stack
\* as it was: it does not panic, and it does not lengthen the stack over
\* slots of the array that hold values popped earlier.
C17_NegativePopRejected ==
    (isPermute /\ lastOp.Pop < 0) =>
        (result.kind \in {"Err", "Errorf"} /\ Stack = prev.Stack)

\* C18: a Push or Permute that does not succeed returns an error and the
\* caller can go on (the call does not panic), and the stack is always the
\* one of the Runtime that was given only the instructions that succeeded.
C18_FailuresTransparent ==
    /\ (returned /\ result # Nil) => result.kind \in {"Err", "Errorf"}
    /\ Stack = good

wellFormed(v) == v.tag = "Symbol" /\ validIdx(v.idx)

\* C19: every element of the stack is a Symbol whose index is one of the
\* table, and after a successful Permute every element is either an element
\* that was below the window, in its place, or a value of the window.  (That
\* each index was the argument of an earlier successful Push is the part of
\* the claim this formula leaves out; what it states already fails.)
C19_WellFormedStack ==
    /\ \A i \in 1..Len(new) : wellFormed(new[i])
    /\ (isPermute /\ result = Nil) =>
          \A i \in 1..Len(new) :
              \/ i <= Min(n, n - lastOp.Pop) /\ new[i] = old[i]
              \/ \E j \in 1..n : j > n - lastOp.Pop /\ old[j] = new[i]

====
